---- MODULE Spec2Model ----
(***************************************************************************)
(* Download accounting of the sotf web server: DownloadCounterService.    *)
(* A MinIO 's3:ObjectAccessed:Get' notification is handled by              *)
(* processNotification, an async function: every await is a point where    *)
(* other handlers, the clock, the sweep timer and the un-awaited saves     *)
(* interleave.  One action of the model is one run of a handler from one   *)
(* await to the next.                                                      *)
(***************************************************************************)
EXTENDS Integers, Sequences, FiniteSets, TLC

(* ------------------------------ bounds --------------------------------- *)

\* Number of notifications delivered (and so of handlers that may overlap).
MaxHandlers == 2

\* Number of times the clock advances.
MaxTicks == 3

\* Number of calls of startListening on the one service instance.
MaxStarts == 2

\* Number of calls of likeMod and unlikeMod the web app makes.
MaxCalls == 2

\* Largest likeCount a mod is loaded with.
MaxLikeCount == 2

(* --------------------------- program constants -------------------------- *)

RESET_INTERVAL == 1000 * 60

TRACKING_DURATION == 1000 * 60

IP_HASH_SALT == "C0AayiNoVJJPzhm58v4W"

(* ------------------------------ characters ------------------------------ *)

Lower ==
  {"a","b","c","d","e","f","g","h","i","j","k","l","m",
   "n","o","p","q","r","s","t","u","v","w","x","y","z"}

Upper ==
  {"A","B","C","D","E","F","G","H","I","J","K","L","M",
   "N","O","P","Q","R","S","T","U","V","W","X","Y","Z"}

Digit == {"0","1","2","3","4","5","6","7","8","9"}

\* The character class [a-zA-Z0-9\.\-_] of both regexes.
SlugChars == Lower \cup Upper \cup Digit \cup {".", "-", "_"}

\* Characters the regex dot does not match.
LineTerminators == {"\n", "\r"}

\* The quantifier {1,64} of the slug groups.
SlugMin == 1

SlugMax == 64

NoMatch == [matched |-> FALSE]

\* Index of the first "/" of s at or after position from, 0 when there is none.
FirstSlash(s, from) ==
  LET idx == {i \in from..Len(s) : s[i] = "/"}
  IN  IF idx = {} THEN 0 ELSE CHOOSE i \in idx : \A j \in idx : i <= j

\* A slug group without the upper limit of its quantifier.
IsSlugUnbounded(s) ==
  /\ Len(s) >= SlugMin
  /\ \A i \in 1..Len(s) : s[i] \in SlugChars

IsSlug(s) ==
  /\ Len(s) >= SlugMin
  /\ Len(s) <= SlugMax
  /\ \A i \in 1..Len(s) : s[i] \in SlugChars

\* (.+)$ : at least one character, none of them a line terminator.
IsFileName(s) ==
  /\ Len(s) >= 1
  /\ \A i \in 1..Len(s) : s[i] \notin LineTerminators

ModsPrefix == <<"m","o","d","s","/">>

LauncherPrefix == <<"l","a","u","n","c","h","e","r","/">>

HasPrefix(s, p) == Len(s) >= Len(p) /\ SubSeq(s, 1, Len(p)) = p

\* key.match(modVersionRegex): groups 1, 2, 3 or no match.  A slug cannot
\* hold a "/", so group 1 ends at the first "/" after the prefix and
\* group 2 at the next one.
modVersionRegex(key) ==
  IF ~HasPrefix(key, ModsPrefix) THEN NoMatch
  ELSE
    LET a  == Len(ModsPrefix) + 1
        i1 == FirstSlash(key, a)
        i2 == IF i1 = 0 THEN 0 ELSE FirstSlash(key, i1 + 1)
    IN  IF i1 = 0 \/ i2 = 0 THEN NoMatch
        ELSE
          LET g1 == SubSeq(key, a, i1 - 1)
              g2 == SubSeq(key, i1 + 1, i2 - 1)
              g3 == SubSeq(key, i2 + 1, Len(key))
          IN  IF IsSlug(g1) /\ IsSlug(g2) /\ IsFileName(g3)
              THEN [matched |-> TRUE, g1 |-> g1, g2 |-> g2, g3 |-> g3]
              ELSE NoMatch

\* key.match(launcherVersionRegex): groups 1, 2 or no match.
launcherVersionRegex(key) ==
  IF ~HasPrefix(key, LauncherPrefix) THEN NoMatch
  ELSE
    LET a  == Len(LauncherPrefix) + 1
        i1 == FirstSlash(key, a)
    IN  IF i1 = 0 THEN NoMatch
        ELSE
          LET g1 == SubSeq(key, a, i1 - 1)
              g2 == SubSeq(key, i1 + 1, Len(key))
          IN  IF IsSlug(g1) /\ IsFileName(g2)
              THEN [matched |-> TRUE, g1 |-> g1, g2 |-> g2]
              ELSE NoMatch

\* The routing of countDownload: which counter, with which slugs.
Classify(key) ==
  LET modVersionMatch == modVersionRegex(key)
  IN  IF modVersionMatch.matched
      THEN [type |-> "ModVersion",
            modSlug |-> modVersionMatch.g1, versionSlug |-> modVersionMatch.g2]
      ELSE
        LET launcherVersionMatch == launcherVersionRegex(key)
        IN  IF launcherVersionMatch.matched
            THEN [type |-> "LauncherVersion",
                  versionSlug |-> launcherVersionMatch.g1]
            ELSE [type |-> "Unrecognized"]

(* -------------------------- the notifications --------------------------- *)

Slash == <<"/">>

SuperMod == <<"s","-","m">>

V120 == <<"1",".","2">>

V345 == <<"3",".","4">>

GhostMod == <<"g","h">>

FileZip == <<"f",".","z">>

\* mods/s-m/1.2/f.z : a mod version of the catalog.
KeyModFile == ModsPrefix \o SuperMod \o Slash \o V120 \o Slash \o FileZip

\* mods/s-m/1.2/x : another file of the same mod version.
KeyModOther == ModsPrefix \o SuperMod \o Slash \o V120 \o Slash \o <<"x">>

\* launcher/3.4/f.z : a launcher version of the catalog.
KeyLauncher == LauncherPrefix \o V345 \o Slash \o FileZip

\* mods/gh/1.2/f.z : a mod version the catalog does not hold.
KeyGhost == ModsPrefix \o GhostMod \o Slash \o V120 \o Slash \o FileZip

\* random/x : no known shape.
KeyUnrelated == <<"r","a","n","d","o","m","/","x">>

Keys == {KeyModFile, KeyLauncher, KeyUnrelated}

\* Slugs both regexes accept: one character, every kind of character of the
\* class, and the longest length.
Slug64 == [i \in 1..SlugMax |-> "a"]

GoodSlugs == {<<"a">>, <<"Z","9",".","-","_">>, Slug64}

\* Slugs they refuse: empty, one character too long, a character outside
\* the class.
Slug65 == [i \in 1..(SlugMax + 1) |-> "a"]

BadSlugs == {<< >>, Slug65, <<"a","+">>}

\* What follows the last slug: a file name, a file name with a folder,
\* nothing, and a name that holds a line feed.
GoodRests == {<<"f">>, <<"d","/","f">>}

NewlineRest == <<"f","\n","g">>

Rests == GoodRests \cup {<< >>, NewlineRest}

ModShape(A, B, R) == ModsPrefix \o A \o Slash \o B \o Slash \o R

LauncherShape(V, R) == LauncherPrefix \o V \o Slash \o R

\* The slugs and rests object keys are composed of: each slug in turn beside
\* a plain one, each rest behind plain slugs.
ModParts ==
  {<<A, <<"a">>, <<"f">>>> : A \in GoodSlugs \cup BadSlugs}
    \cup {<<<<"a">>, B, <<"f">>>> : B \in GoodSlugs \cup BadSlugs}
    \cup {<<<<"a">>, <<"Z","9",".","-","_">>, R>> : R \in Rests}

LauncherParts ==
  {<<V, <<"f">>>> : V \in GoodSlugs \cup BadSlugs}
    \cup {<<<<"a">>, R>> : R \in Rests}

\* Keys of neither shape: no key at all, another prefix, a prefix in another
\* case, a mod key without file part, a launcher key without file part.
OtherKeys ==
  {<< >>, KeyUnrelated,
   <<"M","o","d","s","/","a","/","b","/","f">>,
   <<"m","o","d","s","/","a","/","b">>,
   <<"l","a","u","n","c","h","e","r","/","a">>}

ClassifyKeys ==
  {ModShape(p[1], p[2], p[3]) : p \in ModParts}
    \cup {LauncherShape(p[1], p[2]) : p \in LauncherParts}
    \cup OtherKeys

Hosts == {"1.2.3.4", "5.6.7.8"}

\* createHash('md5').update(IP_HASH_SALT).update(ip).digest('hex'): the
\* digest of the salt followed by the address.
IpHash(ip) == [md5 |-> <<IP_HASH_SALT, ip>>]

(* ------------------------------ the catalog ----------------------------- *)

ModVersionRows == {[modId |-> SuperMod, version |-> V120]}

LauncherVersionRows == {[version |-> V345]}

\* ModVersion.findBy({ modId, version })
ModVersionFindBy(modSlug, versionSlug) ==
  {r \in ModVersionRows : r.modId = modSlug /\ r.version = versionSlug}

\* LauncherVersion.findBy({ version })
LauncherVersionFindBy(versionSlug) ==
  {r \in LauncherVersionRows : r.version = versionSlug}

(* ----------------------------- tracker store ---------------------------- *)

NoRow == [none |-> TRUE]

\* The rows of one (path, ipHash) pair.
RowsOf(rows, path, ipHash) ==
  {r \in rows : r.path = path /\ r.ipHash = ipHash}

\* A lookup by the fingerprint alone.
TrackerFindOneByHost(rows, path, ipHash) ==
  IF {r \in rows : r.ipHash = ipHash} = {} THEN NoRow
  ELSE CHOOSE r \in {x \in rows : x.ipHash = ipHash} : TRUE

\* DownloadTracker.findOne({ where: { path, ipHash } })
TrackerFindOne(rows, path, ipHash) ==
  IF RowsOf(rows, path, ipHash) = {} THEN NoRow
  ELSE CHOOSE r \in RowsOf(rows, path, ipHash) : TRUE

\* A save that adds a row whatever the table holds.
TrackerInsert(rows, path, ipHash, expiresAt) ==
  rows \cup {[path |-> path, ipHash |-> ipHash, expiresAt |-> expiresAt]}

\* DownloadTracker.save(entity) on a table whose key is (path, ipHash): the
\* row of that key is written, inserted when there is none.
TrackerSave(rows, path, ipHash, expiresAt) ==
  (rows \ RowsOf(rows, path, ipHash))
    \cup {[path |-> path, ipHash |-> ipHash, expiresAt |-> expiresAt]}

\* find({ where: { expiresAt: MoreThan(date) } })
MoreThan(rows, date) == {r \in rows : r.expiresAt > date}

(* ----------------------- processNotification, parts --------------------- *)

NewExpiryNoWindow(date) == date

\* newExpiry.setTime(newExpiry.getTime() + TRACKING_DURATION)
NewExpiry(date) == date + TRACKING_DURATION

ExpiredAlways(expiresAt, date) == TRUE

ExpiredNever(expiresAt, date) == FALSE

\* tracker.expiresAt.getTime() < new Date().getTime()
Expired(expiresAt, date) == expiresAt < date

\* !modVersions || modVersions.length <= 0
NoneFound(found) == Cardinality(found) <= 0

\* The rows the forEach inside the guarded block visits.
Incremented(found) == IF NoneFound(found) THEN found ELSE {}

(* -------------------------------- state --------------------------------- *)

VARIABLES
  now,            \* the clock, in milliseconds
  ticks,          \* how often the clock advanced
  pc,             \* per handler: the await it is suspended at
  notif,          \* per handler: the notification it was called with
  arrivedAt,      \* per handler: the new Date() of line 139
  newExpiry,      \* per handler: the local newExpiry
  fresh,          \* per handler: was countDownload called
  trackers,       \* the DownloadTracker table
  modVersionCount,       \* ModVersion.downloadCount, per row
  launcherVersionCount,  \* LauncherVersion.downloadCount, per row
  pendingSaves,   \* saves issued without await, not yet executed
  service,        \* the DownloadCounterService instance and its timer
  mod,            \* the web app's mod page: the ref mod
  likes,          \* the web app's store: state.likes
  calls,          \* the web app's calls of likeMod and unlikeMod
  disabled,       \* the web app's like button: the ref disabled
  session,        \* the web app's session, as isSessionExpired sees it
  nav             \* the web app's router: the last navigation

vars ==
  <<now, ticks, pc, notif, arrivedAt, newExpiry, fresh, trackers,
    modVersionCount, launcherVersionCount, pendingSaves, service,
    mod, likes, calls, disabled, session, nav>>

\* The state of the server process and the state of the web app.
server ==
  <<now, ticks, pc, notif, arrivedAt, newExpiry, fresh, trackers,
    modVersionCount, launcherVersionCount, pendingSaves, service>>

client == <<mod, likes, calls, disabled, session, nav>>

Handlers == 1..MaxHandlers

Calls == 1..MaxCalls

\* The clock advances by half a tracking window.
ClockStep == TRACKING_DURATION \div 2

NoNotif == [none |-> TRUE]

\* cfg.storage: which of the three settings are present.
Cfgs == [accessKey : BOOLEAN, secretKey : BOOLEAN, endPoint : BOOLEAN]

\* The service before its constructor ran.  phase: where main is with it;
\* client: this.client is not null; emitters: the subscriptions that carry
\* the notification listener; removalTasks: the intervals scheduled;
\* starts: the calls of startListening that returned; sweep: how the last
\* run of removeExpiredTrackers ended.
NewService(cfg) ==
  [cfg |-> cfg, phase |-> "new", client |-> FALSE, emitters |-> 0,
   removalTasks |-> 0, starts |-> 0, sweep |-> "none"]

\* A service that listens: one subscription, one interval.
ListeningService ==
  [cfg |-> [accessKey |-> TRUE, secretKey |-> TRUE, endPoint |-> FALSE],
   phase |-> "constructed", client |-> TRUE, emitters |-> 1,
   removalTasks |-> 1, starts |-> 1, sweep |-> "none"]

\* The tables and the handlers before any notification.
InitStore ==
  /\ now = 0
  /\ ticks = 0
  /\ pc = [h \in Handlers |-> "idle"]
  /\ notif = [h \in Handlers |-> NoNotif]
  /\ arrivedAt = [h \in Handlers |-> 0]
  /\ newExpiry = [h \in Handlers |-> 0]
  /\ fresh = [h \in Handlers |-> "undecided"]
  /\ trackers = {}
  /\ modVersionCount = [r \in ModVersionRows |-> 0]
  /\ launcherVersionCount = [r \in LauncherVersionRows |-> 0]
  /\ pendingSaves = {}

\* The web app before its first page is shown: no mod loaded, no like in
\* the store, no call made, no session, no navigation yet.
NoMod == [none |-> TRUE]

NoCall == [state |-> "idle"]

NoNav == [taken |-> << >>]

InitClient ==
  /\ mod = NoMod
  /\ likes = << >>
  /\ calls = [c \in Calls |-> NoCall]
  /\ disabled = FALSE
  /\ session = [expired |-> TRUE]
  /\ nav = NoNav

\* Notification handling is followed from a service that listens.
Init ==
  /\ InitStore
  /\ service = ListeningService
  /\ InitClient

(* ------------------------------- actions -------------------------------- *)

\* A dedup key made of the parsed target: every file of one version shares it.
PathOfTarget(h) ==
  LET target == Classify(notif[h].key)
  IN  IF target.type = "ModVersion"
      THEN ModShape(target.modSlug, target.versionSlug, <<"*">>)
      ELSE IF target.type = "LauncherVersion"
      THEN LauncherShape(target.versionSlug, <<"*">>)
      ELSE notif[h].key

PathOf(h) == notif[h].key

\* A digest salted anew on every call.
IpHashOfCall(h) == IpHash(<<notif[h].host, h>>)

IpHashOf(h) == IpHash(notif[h].host)

AfterClassifyNoStop(key) == "findBy"

\* Where a handler stands once countDownload has matched the key: awaiting
\* the findBy of one of the two counters, or finished after the log line.
AfterClassify(key) ==
  IF Classify(key).type = "Unrecognized" THEN "done" ELSE "findBy"

\* The locals newExpiry and its date are not read after the tracker save is
\* issued: they are dropped there.
DropLocals(h) ==
  /\ arrivedAt' = [arrivedAt EXCEPT ![h] = 0]
  /\ newExpiry' = [newExpiry EXCEPT ![h] = 0]

\* The 'notification' listener calls processNotification(notif), which runs
\* up to the await of findOne.  Handlers are numbered in order of arrival.
Notify(h, key, host) ==
  /\ pc[h] = "idle"
  /\ \A g \in Handlers : g < h => pc[g] # "idle"
  /\ notif' = [notif EXCEPT ![h] = [key |-> key, host |-> host]]
  /\ arrivedAt' = [arrivedAt EXCEPT ![h] = now]
  /\ newExpiry' = [newExpiry EXCEPT ![h] = NewExpiry(now)]
  /\ pc' = [pc EXCEPT ![h] = "findOne"]
  /\ UNCHANGED <<now, ticks, fresh, trackers, modVersionCount,
                 launcherVersionCount, pendingSaves>>
  /\ UNCHANGED <<service, client>>

\* findOne resolves; the handler runs on to its next await.
FindOne(h) ==
  /\ pc[h] = "findOne"
  /\ LET tracker == TrackerFindOne(trackers, PathOf(h), IpHashOf(h))
     IN  IF tracker = NoRow
         THEN /\ pc' = [pc EXCEPT ![h] = "saveNew"]
              /\ UNCHANGED <<arrivedAt, newExpiry, fresh, pendingSaves>>
         ELSE /\ pendingSaves' = pendingSaves \cup
                   {[table |-> "DownloadTracker",
                     entity |-> [path |-> tracker.path,
                                 ipHash |-> tracker.ipHash,
                                 expiresAt |-> newExpiry[h]]]}
              /\ DropLocals(h)
              /\ IF Expired(tracker.expiresAt, now)
                 THEN /\ fresh' = [fresh EXCEPT ![h] = "yes"]
                      /\ pc' = [pc EXCEPT ![h] = AfterClassify(PathOf(h))]
                 ELSE /\ fresh' = [fresh EXCEPT ![h] = "no"]
                      /\ pc' = [pc EXCEPT ![h] = "done"]
  /\ UNCHANGED <<now, ticks, notif, trackers, modVersionCount,
                 launcherVersionCount>>
  /\ UNCHANGED <<service, client>>

\* findOne rejects: nothing catches it, the handler's promise rejects.
FindOneFails(h) ==
  /\ pc[h] = "findOne"
  /\ pc' = [pc EXCEPT ![h] = "rejected"]
  /\ DropLocals(h)
  /\ UNCHANGED <<now, ticks, notif, fresh, trackers, modVersionCount,
                 launcherVersionCount, pendingSaves>>
  /\ UNCHANGED <<service, client>>

\* A save that also clears the rows whose window is over.
SaveNewClearing(h) ==
  /\ pc[h] = "saveNew"
  /\ trackers' = TrackerSave(MoreThan(trackers, now), PathOf(h), IpHashOf(h),
                             newExpiry[h])
  /\ fresh' = [fresh EXCEPT ![h] = "yes"]
  /\ pc' = [pc EXCEPT ![h] = AfterClassify(PathOf(h))]
  /\ DropLocals(h)
  /\ UNCHANGED <<now, ticks, notif, modVersionCount, launcherVersionCount,
                 pendingSaves>>
  /\ UNCHANGED <<service, client>>

\* The awaited save of the created tracker resolves; countDownload is called.
SaveNew(h) ==
  /\ pc[h] = "saveNew"
  /\ trackers' = TrackerSave(trackers, PathOf(h), IpHashOf(h), newExpiry[h])
  /\ fresh' = [fresh EXCEPT ![h] = "yes"]
  /\ pc' = [pc EXCEPT ![h] = AfterClassify(PathOf(h))]
  /\ DropLocals(h)
  /\ UNCHANGED <<now, ticks, notif, modVersionCount, launcherVersionCount,
                 pendingSaves>>
  /\ UNCHANGED <<service, client>>

\* The awaited save rejects: the handler's promise rejects.
SaveNewFails(h) ==
  /\ pc[h] = "saveNew"
  /\ pc' = [pc EXCEPT ![h] = "rejected"]
  /\ DropLocals(h)
  /\ UNCHANGED <<now, ticks, notif, fresh, trackers, modVersionCount,
                 launcherVersionCount, pendingSaves>>
  /\ UNCHANGED <<service, client>>

\* A counter that writes every row of the table, found or not.
countModVersionDownloadAnyRow(modSlug, versionSlug) ==
  pendingSaves' = pendingSaves \cup
    {[table |-> "ModVersion",
      entity |-> [row |-> r, downloadCount |-> modVersionCount[r] + 1]]
       : r \in ModVersionRows}

\* countModVersionDownload after its findBy resolved.
countModVersionDownload(modSlug, versionSlug) ==
  LET modVersions == ModVersionFindBy(modSlug, versionSlug)
  IN  pendingSaves' = pendingSaves \cup
        {[table |-> "ModVersion",
          entity |-> [row |-> r, downloadCount |-> modVersionCount[r] + 1]]
           : r \in Incremented(modVersions)}

\* A counter that counts the found rows down.
countLauncherVersionDownloadDown(versionSlug) ==
  pendingSaves' = pendingSaves \cup
    {[table |-> "LauncherVersion",
      entity |-> [row |-> r, downloadCount |-> launcherVersionCount[r] - 1]]
       : r \in LauncherVersionFindBy(versionSlug)}

\* countLauncherVersionDownload after its findBy resolved.
countLauncherVersionDownload(versionSlug) ==
  LET launcherVersions == LauncherVersionFindBy(versionSlug)
  IN  pendingSaves' = pendingSaves \cup
        {[table |-> "LauncherVersion",
          entity |-> [row |-> r,
                      downloadCount |-> launcherVersionCount[r] + 1]]
           : r \in Incremented(launcherVersions)}

\* The findBy of the counter resolves; the handler runs to its end.
FindBy(h) ==
  /\ pc[h] = "findBy"
  /\ LET target == Classify(PathOf(h))
     IN  IF target.type = "ModVersion"
         THEN countModVersionDownload(target.modSlug, target.versionSlug)
         ELSE countLauncherVersionDownload(target.versionSlug)
  /\ pc' = [pc EXCEPT ![h] = "done"]
  /\ UNCHANGED <<now, ticks, notif, arrivedAt, newExpiry, fresh, trackers,
                 modVersionCount, launcherVersionCount>>
  /\ UNCHANGED <<service, client>>

\* The lookup of the counter fails and the handler's promise rejects.
FindByFailsUncaught(h) ==
  /\ pc[h] = "findBy"
  /\ pc' = [pc EXCEPT ![h] = "rejected"]
  /\ UNCHANGED <<now, ticks, notif, arrivedAt, newExpiry, fresh, trackers,
                 modVersionCount, launcherVersionCount, pendingSaves>>
  /\ UNCHANGED <<service, client>>

\* The findBy rejects, or it resolves to no list and forEach throws on it
\* inside the try: the catch of the counter logs it, the handler ends.
FindByFails(h) ==
  /\ pc[h] = "findBy"
  /\ pc' = [pc EXCEPT ![h] = "done"]
  /\ UNCHANGED <<now, ticks, notif, arrivedAt, newExpiry, fresh, trackers,
                 modVersionCount, launcherVersionCount, pendingSaves>>
  /\ UNCHANGED <<service, client>>

\* A save issued without await is executed by the database.
SaveComplete(w) ==
  /\ w \in pendingSaves
  /\ pendingSaves' = pendingSaves \ {w}
  /\ trackers' =
       IF w.table = "DownloadTracker"
       THEN TrackerSave(trackers, w.entity.path, w.entity.ipHash,
                        w.entity.expiresAt)
       ELSE trackers
  /\ modVersionCount' =
       IF w.table = "ModVersion"
       THEN [modVersionCount EXCEPT ![w.entity.row] = w.entity.downloadCount]
       ELSE modVersionCount
  /\ launcherVersionCount' =
       IF w.table = "LauncherVersion"
       THEN [launcherVersionCount EXCEPT
               ![w.entity.row] = w.entity.downloadCount]
       ELSE launcherVersionCount
  /\ UNCHANGED <<now, ticks, pc, notif, arrivedAt, newExpiry, fresh>>
  /\ UNCHANGED <<service, client>>

\* A save issued without await rejects; nobody holds its promise.
SaveFails(w) ==
  /\ w \in pendingSaves
  /\ pendingSaves' = pendingSaves \ {w}
  /\ UNCHANGED <<now, ticks, pc, notif, arrivedAt, newExpiry, fresh,
                 trackers, modVersionCount, launcherVersionCount>>
  /\ UNCHANGED <<service, client>>

\* The interval timer runs removeExpiredTrackers: one find, result dropped.
removeExpiredTrackers ==
  /\ MoreThan(trackers, now) \subseteq trackers
  /\ UNCHANGED vars

\* Time passes.
Tick ==
  /\ ticks < MaxTicks
  /\ now' = now + ClockStep
  /\ ticks' = ticks + 1
  /\ UNCHANGED <<pc, notif, arrivedAt, newExpiry, fresh, trackers,
                 modVersionCount, launcherVersionCount, pendingSaves>>
  /\ UNCHANGED <<service, client>>

Next ==
  \/ \E h \in Handlers, key \in Keys, host \in Hosts : Notify(h, key, host)
  \/ \E h \in Handlers : FindOne(h)
  \/ \E h \in Handlers : FindOneFails(h)
  \/ \E h \in Handlers : SaveNew(h)
  \/ \E h \in Handlers : SaveNewFails(h)
  \/ \E h \in Handlers : FindBy(h)
  \/ \E h \in Handlers : FindByFails(h)
  \/ \E w \in pendingSaves : SaveComplete(w)
  \/ \E w \in pendingSaves : SaveFails(w)
  \/ removeExpiredTrackers
  \/ Tick

Spec == Init /\ [][Next]_vars

\* A handler between its call and its end.
InFlight(h) == pc[h] \in {"findOne", "saveNew", "findBy"}

\* The same handlers on a storage layer that never fails.
NextReliable ==
  \/ \E h \in Handlers, key \in Keys, host \in Hosts : Notify(h, key, host)
  \/ \E h \in Handlers : FindOne(h)
  \/ \E h \in Handlers : SaveNew(h)
  \/ \E h \in Handlers : FindBy(h)
  \/ \E w \in pendingSaves : SaveComplete(w)
  \/ removeExpiredTrackers
  \/ Tick

SpecReliable == Init /\ [][NextReliable]_vars

\* Notifications delivered one after the other: a notification arrives once
\* the handler of the previous one has ended.
NotifyAlone(h, key, host) ==
  /\ \A g \in Handlers : ~InFlight(g)
  /\ Notify(h, key, host)

NextSeq ==
  \/ \E h \in Handlers, key \in Keys, host \in Hosts :
        NotifyAlone(h, key, host)
  \/ \E h \in Handlers : FindOne(h)
  \/ \E h \in Handlers : SaveNew(h)
  \/ \E h \in Handlers : FindBy(h)
  \/ \E w \in pendingSaves : SaveComplete(w)
  \/ removeExpiredTrackers
  \/ Tick

SpecSeq == Init /\ [][NextSeq]_vars

\* One client downloads objects of every shape of key, one after the other.
ClassifyHosts == {"1.2.3.4"}

NextClassify ==
  \/ \E h \in Handlers, key \in ClassifyKeys, host \in ClassifyHosts :
        NotifyAlone(h, key, host)
  \/ \E h \in Handlers : FindOne(h)
  \/ \E h \in Handlers : SaveNew(h)
  \/ \E h \in Handlers : FindBy(h)
  \/ \E w \in pendingSaves : SaveComplete(w)

SpecClassify == Init /\ [][NextClassify]_vars

\* A download tracked before the service started: its row is in the table
\* and its window ended half a window before time 0.
ElapsedNotif == [key |-> KeyModFile, host |-> "1.2.3.4"]

ElapsedRow ==
  [path |-> ElapsedNotif.key, ipHash |-> IpHash(ElapsedNotif.host),
   expiresAt |-> 0 - ClockStep]

\* The service starts to listen on a table that holds the elapsed row.
InitElapsed ==
  /\ now = 0
  /\ ticks = 0
  /\ pc = [h \in Handlers |-> "idle"]
  /\ notif = [h \in Handlers |-> NoNotif]
  /\ arrivedAt = [h \in Handlers |-> 0]
  /\ newExpiry = [h \in Handlers |-> 0]
  /\ fresh = [h \in Handlers |-> "undecided"]
  /\ trackers = {ElapsedRow}
  /\ modVersionCount = [r \in ModVersionRows |-> 0]
  /\ launcherVersionCount = [r \in LauncherVersionRows |-> 0]
  /\ pendingSaves = {}
  /\ service = ListeningService
  /\ InitClient

\* Repeats of that download, storage reliable: every handler finds the row.
NextElapsed ==
  \/ \E h \in Handlers : Notify(h, ElapsedNotif.key, ElapsedNotif.host)
  \/ \E h \in Handlers : FindOne(h)
  \/ \E h \in Handlers : FindBy(h)
  \/ \E w \in pendingSaves : SaveComplete(w)
  \/ Tick

SpecElapsed == InitElapsed /\ [][NextElapsed]_vars

\* Downloads of two files of one mod version.
FileKeys == {KeyModFile, KeyModOther}

NextFiles ==
  \/ \E h \in Handlers, key \in FileKeys, host \in Hosts :
        Notify(h, key, host)
  \/ \E h \in Handlers : FindOne(h)
  \/ \E h \in Handlers : FindOneFails(h)
  \/ \E h \in Handlers : SaveNew(h)
  \/ \E h \in Handlers : SaveNewFails(h)
  \/ \E h \in Handlers : FindBy(h)
  \/ \E h \in Handlers : FindByFails(h)
  \/ \E w \in pendingSaves : SaveComplete(w)
  \/ \E w \in pendingSaves : SaveFails(w)
  \/ removeExpiredTrackers
  \/ Tick

SpecFiles == Init /\ [][NextFiles]_vars

\* Half an hour, in milliseconds.
ThirtyMinutes == 30 * 60 * 1000

\* Half an hour passes between two reads of the clock.
HalfHourPasses ==
  /\ ticks < MaxTicks
  /\ now' = now + ThirtyMinutes
  /\ ticks' = ticks + 1
  /\ UNCHANGED <<pc, notif, arrivedAt, newExpiry, fresh, trackers,
                 modVersionCount, launcherVersionCount, pendingSaves>>
  /\ UNCHANGED <<service, client>>

\* Downloads half an hour apart, one after the other, storage reliable.
NextHalfHours ==
  \/ \E h \in Handlers, key \in Keys, host \in Hosts :
        NotifyAlone(h, key, host)
  \/ \E h \in Handlers : FindOne(h)
  \/ \E h \in Handlers : SaveNew(h)
  \/ \E h \in Handlers : FindBy(h)
  \/ \E w \in pendingSaves : SaveComplete(w)
  \/ HalfHourPasses

SpecHalfHours == Init /\ [][NextHalfHours]_vars

\* Downloads of mod version files, of a version the catalog holds and of one
\* it does not.
ModKeys == {KeyModFile, KeyGhost}

NextMods ==
  \/ \E h \in Handlers, key \in ModKeys, host \in Hosts : Notify(h, key, host)
  \/ \E h \in Handlers : FindOne(h)
  \/ \E h \in Handlers : FindOneFails(h)
  \/ \E h \in Handlers : SaveNew(h)
  \/ \E h \in Handlers : SaveNewFails(h)
  \/ \E h \in Handlers : FindBy(h)
  \/ \E h \in Handlers : FindByFails(h)
  \/ \E w \in pendingSaves : SaveComplete(w)
  \/ \E w \in pendingSaves : SaveFails(w)
  \/ removeExpiredTrackers
  \/ Tick

SpecMods == Init /\ [][NextMods]_vars

(* ----------------------- the service and its timer ---------------------- *)

\* accessKey && secretKey && !endPoint
ClientConfigured(cfg) == cfg.accessKey /\ cfg.secretKey /\ ~cfg.endPoint

\* new DownloadCounterService(cfg): the constructor returns, with a client
\* when the test of the configuration passes, without one otherwise.
Construct ==
  /\ service.phase = "new"
  /\ service' = [service EXCEPT !.phase = "constructed",
                                !.client = ClientConfigured(service.cfg)]
  /\ UNCHANGED <<now, ticks, pc, notif, arrivedAt, newExpiry, fresh,
                 trackers, modVersionCount, launcherVersionCount,
                 pendingSaves>>
  /\ UNCHANGED client

\* new Client(...) is called with the endPoint the test found absent: the
\* storage library may refuse it, the constructor then throws into main.
ConstructThrows ==
  /\ service.phase = "new"
  /\ ClientConfigured(service.cfg)
  /\ service' = [service EXCEPT !.phase = "threw"]
  /\ UNCHANGED <<now, ticks, pc, notif, arrivedAt, newExpiry, fresh,
                 trackers, modVersionCount, launcherVersionCount,
                 pendingSaves>>
  /\ UNCHANGED client

\* startListening(): without a client it logs and returns; with one it
\* subscribes, attaches the listeners and schedules the interval.
startListening ==
  /\ service.phase = "constructed"
  /\ service.starts < MaxStarts
  /\ service' =
       IF ~service.client
       THEN [service EXCEPT !.starts = @ + 1]
       ELSE [service EXCEPT !.starts = @ + 1, !.emitters = @ + 1,
                            !.removalTasks = @ + 1]
  /\ UNCHANGED <<now, ticks, pc, notif, arrivedAt, newExpiry, fresh,
                 trackers, modVersionCount, launcherVersionCount,
                 pendingSaves>>
  /\ UNCHANGED client

\* The handlers not called yet.
Idle == {h \in Handlers : pc[h] = "idle"}

\* The handlers one bucket event starts: one per subscription, in order.
Started ==
  {h \in Idle : Cardinality({g \in Idle : g < h}) < service.emitters}

\* A GET of the bucket: every subscription emits the notification and its
\* listener calls processNotification, which runs up to the await of findOne.
Deliver(key, host) ==
  /\ service.emitters >= 1
  /\ Cardinality(Idle) >= service.emitters
  /\ notif' = [h \in Handlers |->
                 IF h \in Started THEN [key |-> key, host |-> host]
                 ELSE notif[h]]
  /\ arrivedAt' = [h \in Handlers |->
                     IF h \in Started THEN now ELSE arrivedAt[h]]
  /\ newExpiry' = [h \in Handlers |->
                     IF h \in Started THEN NewExpiry(now) ELSE newExpiry[h]]
  /\ pc' = [h \in Handlers |-> IF h \in Started THEN "findOne" ELSE pc[h]]
  /\ UNCHANGED <<now, ticks, fresh, trackers, modVersionCount,
                 launcherVersionCount, pendingSaves, service>>
  /\ UNCHANGED client

RemovedFound(found) == found

\* The rows removeExpiredTrackers deletes: the result of its find is
\* dropped, no row is deleted.
Removed(found) == {}

OnSweepErrorUncaught(svc) == [svc EXCEPT !.sweep = "rejected"]

\* catch (err) { console.error(...) }
OnSweepError(svc) == [svc EXCEPT !.sweep = "caught"]

\* An interval fires and removeExpiredTrackers runs to its end.
SweepTick ==
  /\ service.removalTasks >= 1
  /\ LET found == MoreThan(trackers, now)
     IN  /\ service' = [service EXCEPT !.sweep = "resolved"]
         /\ trackers' = trackers \ Removed(found)
  /\ UNCHANGED <<now, ticks, pc, notif, arrivedAt, newExpiry, fresh,
                 modVersionCount, launcherVersionCount, pendingSaves>>
  /\ UNCHANGED client

\* An interval fires and the find of removeExpiredTrackers rejects.
SweepFails ==
  /\ service.removalTasks >= 1
  /\ service' = OnSweepError(service)
  /\ UNCHANGED <<now, ticks, pc, notif, arrivedAt, newExpiry, fresh,
                 trackers, modVersionCount, launcherVersionCount,
                 pendingSaves>>
  /\ UNCHANGED client

\* The program of main: the service is constructed from the configuration
\* and started; notifications and timer ticks follow.
InitService ==
  /\ InitStore
  /\ service \in {NewService(cfg) : cfg \in Cfgs}
  /\ InitClient

NextService ==
  \/ Construct
  \/ ConstructThrows
  \/ startListening
  \/ \E key \in Keys, host \in Hosts : Deliver(key, host)
  \/ \E h \in Handlers : FindOne(h)
  \/ \E h \in Handlers : SaveNew(h)
  \/ \E h \in Handlers : FindBy(h)
  \/ \E w \in pendingSaves : SaveComplete(w)
  \/ SweepTick
  \/ SweepFails
  \/ Tick

SpecService == InitService /\ [][NextService]_vars

\* The timer beside the handlers of one file's downloads, storage failures
\* included, on a service that listens.
SweepKeys == {KeyModFile}

NextSweep ==
  \/ \E h \in Handlers, key \in SweepKeys, host \in Hosts :
        Notify(h, key, host)
  \/ \E h \in Handlers : FindOne(h)
  \/ \E h \in Handlers : FindOneFails(h)
  \/ \E h \in Handlers : SaveNew(h)
  \/ \E h \in Handlers : SaveNewFails(h)
  \/ \E h \in Handlers : FindBy(h)
  \/ \E h \in Handlers : FindByFails(h)
  \/ \E w \in pendingSaves : SaveComplete(w)
  \/ \E w \in pendingSaves : SaveFails(w)
  \/ SweepTick
  \/ SweepFails
  \/ Tick

SpecSweep == Init /\ [][NextSweep]_vars

(* ------------------------------ the web app ----------------------------- *)

Mods == {"m1", "m2"}

\* An absent likeCount (undefined), coded as a number no count takes.
Unset == 0 - 1

LikeCounts == {Unset} \cup (0..MaxLikeCount)

\* A value in a condition: undefined and 0 are falsy.
Truthy(v) == v # Unset /\ v # 0

\* x++ and x-- as expressions: the operand is stored, the value of the
\* expression is what the operand held before.
PostIncrement(x) == [value |-> x, operand |-> x + 1]

PostDecrement(x) == [value |-> x, operand |-> x - 1]

\* onToggleLike(isLiked) on the ref m: likeCount = likeCount ? likeCount++ : 1
\* and likeCount = likeCount ? likeCount-- : 0.  The assignment stores the
\* value of the conditional after ++ or -- stored its operand.
onToggleLike(m, isLiked) ==
  IF m = NoMod THEN m
  ELSE IF isLiked
  THEN [m EXCEPT !.likeCount =
          IF Truthy(@) THEN PostIncrement(@).value ELSE 1]
  ELSE [m EXCEPT !.likeCount =
          IF Truthy(@) THEN PostDecrement(@).value ELSE 0]

\* state.likes.includes(modId)
Includes(list, modId) == \E i \in 1..Len(list) : list[i] = modId

\* list.indexOf(modId): the first position, counted from 0, or -1.
IndexOf(list, modId) ==
  IF Includes(list, modId)
  THEN (CHOOSE i \in 1..Len(list) :
          list[i] = modId /\ \A j \in 1..(i - 1) : list[j] # modId) - 1
  ELSE 0 - 1

\* list.splice(start, deleteCount): a negative start counts from the end.
Splice(list, start, deleteCount) ==
  LET len  == Len(list)
      from == IF start < 0
              THEN (IF len + start < 0 THEN 0 ELSE len + start)
              ELSE (IF start > len THEN len ELSE start)
      cnt  == IF deleteCount < 0 THEN 0
              ELSE IF deleteCount > len - from THEN len - from
              ELSE deleteCount
  IN  SubSeq(list, 1, from) \o SubSeq(list, from + cnt + 1, len)

\* The route meta flags the guard reads; an absent flag is falsy.
Metas ==
  [sessionRequired : BOOLEAN, prohibitSession : BOOLEAN, adminOnly : BOOLEAN]

NoMeta ==
  [sessionRequired |-> FALSE, prohibitSession |-> FALSE, adminOnly |-> FALSE]

\* The routes the router file defines itself carry no meta; the routes it
\* imports (mods, account, legal, admin, redirects) may carry any.
OwnRoutes ==
  [name : {"home", "download", "launcherChangelog", "loaderChangelog",
           "notFound"},
   meta : {NoMeta}]

ImportedRoutes == [name : {"signIn", "imported"}, meta : Metas]

Routes == OwnRoutes \cup ImportedRoutes

HomeRoute == [name |-> "home", meta |-> NoMeta]

\* isSessionExpired(), the same on both calls of one run of the guard.
isSessionExpired == session.expired

\* A guard that tests the admin flag before the session flags.
beforeEachAdminFirst(to) ==
  IF to.meta.adminOnly THEN <<"handleAdminOnly">>
  ELSE IF to.meta.sessionRequired /\ isSessionExpired
  THEN <<"handleMissingSession">>
  ELSE IF to.meta.prohibitSession /\ ~isSessionExpired
  THEN <<"handleExistingSession">>
  ELSE <<"next">>

\* router.beforeEach: the continuations the guard calls, in order.
beforeEach(to) ==
  IF to.meta.sessionRequired /\ isSessionExpired
  THEN <<"handleMissingSession">>
  ELSE IF to.meta.prohibitSession /\ ~isSessionExpired
  THEN <<"handleExistingSession">>
  ELSE IF to.meta.adminOnly THEN <<"handleAdminOnly">>
  ELSE <<"next">>

\* The route on display: the target of the last plain next().
Shown(n) == IF n = NoNav THEN HomeRoute ELSE n.shown

\* One run of the guard: data-route is set to the target's name, then the
\* continuations are called.
Navigated(to) ==
  [to |-> to, dataRoute |-> to.name, taken |-> beforeEach(to),
   shown |-> IF beforeEach(to) = <<"next">> THEN to ELSE Shown(nav)]

\* A navigation to a route.
Navigate(to) ==
  /\ nav' = Navigated(to)
  /\ UNCHANGED <<mod, likes, calls, disabled, session>>
  /\ UNCHANGED server

\* The visitor signs in; the session runs out.
SignIn ==
  /\ session.expired
  /\ session' = [session EXCEPT !.expired = FALSE]
  /\ UNCHANGED <<mod, likes, calls, disabled, nav>>
  /\ UNCHANGED server

SessionExpires ==
  /\ ~session.expired
  /\ session' = [session EXCEPT !.expired = TRUE]
  /\ UNCHANGED <<mod, likes, calls, disabled, nav>>
  /\ UNCHANGED server

\* The mod page is set up: api.getMod resolves and fills the ref.
LoadMod(id, n) ==
  /\ mod = NoMod
  /\ mod' = [id |-> id, likeCount |-> n]
  /\ UNCHANGED <<likes, calls, disabled, session, nav>>
  /\ UNCHANGED server

\* A click on the heart of the mod on display: toggleLike runs up to its
\* await.  Without a session it sends the visitor to the sign-in page; while
\* disabled it returns; else it calls likeMod or unlikeMod, whichever
\* isLiked tells.
toggleLike(c) ==
  /\ mod # NoMod
  /\ calls[c] = NoCall
  /\ \A d \in Calls : d < c => calls[d] # NoCall
  /\ IF isSessionExpired
     THEN /\ \E meta \in Metas :
               nav' = Navigated([name |-> "signIn", meta |-> meta])
          /\ UNCHANGED calls
     ELSE IF disabled
     THEN UNCHANGED <<calls, nav>>
     ELSE /\ calls' = [calls EXCEPT ![c] =
                         [state |-> "sent", modId |-> mod.id,
                          op |-> IF Includes(likes, mod.id)
                                 THEN "unlikeMod" ELSE "likeMod"]]
          /\ UNCHANGED nav
  /\ UNCHANGED <<mod, likes, disabled, session>>
  /\ UNCHANGED server

\* likeMod: state.likes.push(data.modId), the id the server echoes.
Liked(list, modId) == Append(list, modId)

\* unlikeMod: state.likes.splice(state.likes.indexOf(modId), 1)
Unliked(list, modId) == Splice(list, IndexOf(list, modId), 1)

\* The request of likeMod or unlikeMod succeeds: the store is updated and
\* the call returns data.
Resolves(c) ==
  /\ calls[c] # NoCall
  /\ calls[c].state = "sent"
  /\ likes' = IF calls[c].op = "likeMod"
              THEN Liked(likes, calls[c].modId)
              ELSE Unliked(likes, calls[c].modId)
  /\ calls' = [calls EXCEPT ![c] =
                 [state |-> "returned", modId |-> @.modId, op |-> @.op,
                  ok |-> TRUE]]
  /\ UNCHANGED <<mod, disabled, session, nav>>
  /\ UNCHANGED server

\* The request is rejected: the catch shows the error, the call returns null.
Rejects(c) ==
  /\ calls[c] # NoCall
  /\ calls[c].state = "sent"
  /\ calls' = [calls EXCEPT ![c] =
                 [state |-> "returned", modId |-> @.modId, op |-> @.op,
                  ok |-> FALSE]]
  /\ UNCHANGED <<mod, likes, session, nav, disabled>>
  /\ UNCHANGED server

\* toggleLike resumes after its await: a call that returned data emits
\* 'like', which the mod page handles with onToggleLike; the button is
\* disabled for five seconds.
toggleLikeResumes(c) ==
  /\ calls[c] # NoCall
  /\ calls[c].state = "returned"
  /\ calls' = [calls EXCEPT ![c].state = "done"]
  /\ mod' = IF calls[c].ok
            THEN onToggleLike(mod, calls[c].op = "likeMod")
            ELSE mod
  /\ disabled' = TRUE
  /\ UNCHANGED <<likes, session, nav>>
  /\ UNCHANGED server

\* The five seconds have run down: the interval enables the button.
TimerRunsDown ==
  /\ disabled
  /\ disabled' = FALSE
  /\ UNCHANGED <<mod, likes, calls, session, nav>>
  /\ UNCHANGED server

\* The likes the store holds when the visitor has signed in.
StoredLikes == {<< >>, <<"m1">>, <<"m2">>, <<"m1", "m2">>, <<"m2", "m1">>}

InitLikes ==
  /\ InitStore
  /\ service = ListeningService
  /\ mod = NoMod
  /\ likes \in StoredLikes
  /\ calls = [c \in Calls |-> NoCall]
  /\ disabled = FALSE
  /\ session = [expired |-> FALSE]
  /\ nav = NoNav

NextLikes ==
  \/ \E id \in Mods, n \in LikeCounts : LoadMod(id, n)
  \/ \E c \in Calls : toggleLike(c)
  \/ \E c \in Calls : Resolves(c)
  \/ \E c \in Calls : Rejects(c)
  \/ \E c \in Calls : toggleLikeResumes(c)
  \/ TimerRunsDown
  \/ SessionExpires

SpecLikes == InitLikes /\ [][NextLikes]_vars

\* The router alone: navigations to every route, with and without a session.
NextRouter ==
  \/ \E to \in Routes : Navigate(to)
  \/ SignIn
  \/ SessionExpires

SpecRouter == Init /\ [][NextRouter]_vars

(* ------------------------------ properties ------------------------------ *)

\* The downloadCount values of the catalog rows a key resolves to.
CountsOf(key) ==
  LET target == Classify(key)
  IN  IF target.type = "ModVersion"
      THEN {modVersionCount[r] :
              r \in ModVersionFindBy(target.modSlug, target.versionSlug)}
      ELSE IF target.type = "LauncherVersion"
      THEN {launcherVersionCount[r] :
              r \in LauncherVersionFindBy(target.versionSlug)}
      ELSE {}

\* Handlers h of Delivered have been called; no other handler has.
OnlyDelivered(S) == \A h \in Handlers : (pc[h] # "idle") <=> (h \in S)

\* The tracker rows of the pair handler h works on.
RowsOfHandler(rows, h) == RowsOf(rows, PathOf(h), IpHashOf(h))

\* The un-awaited tracker save a handler issues for its pair.
TrackerSaveOf(h, expiresAt) ==
  [table |-> "DownloadTracker",
   entity |-> [path |-> PathOf(h), ipHash |-> IpHashOf(h),
               expiresAt |-> expiresAt]]

\* C1: the same notification (same key, same host) delivered twice, one
\* after the other within one tracking window and with no tracker row
\* before, raises the downloadCount of the key's catalog row by exactly 1.
C1_DuplicateCountsOnce ==
  ( /\ OnlyDelivered({1, 2})
    /\ pc[1] = "done" /\ pc[2] = "done"
    /\ notif[1] = notif[2]
    /\ CountsOf(notif[1].key) # {}
    /\ now < TRACKING_DURATION
    /\ pendingSaves = {} )
  => CountsOf(notif[1].key) = {1}

\* C2: a fresh notification of a mod version file whose ModVersion row
\* exists takes that row's downloadCount from 0 to 1, persisted.
C2_FreshModVersionCounted ==
  ( /\ OnlyDelivered({1})
    /\ pc[1] = "done"
    /\ fresh[1] = "yes"
    /\ Classify(notif[1].key).type = "ModVersion"
    /\ CountsOf(notif[1].key) # {}
    /\ pendingSaves = {} )
  => \A r \in ModVersionFindBy(Classify(notif[1].key).modSlug,
                               Classify(notif[1].key).versionSlug) :
       modVersionCount[r] = 1

\* C3: the same launcher key downloaded from two distinct hosts raises the
\* LauncherVersion row's downloadCount by 1 each time, 2 in total.
C3_LauncherTwoHosts ==
  ( /\ OnlyDelivered({1, 2})
    /\ pc[1] = "done" /\ pc[2] = "done"
    /\ notif[1].key = KeyLauncher /\ notif[2].key = KeyLauncher
    /\ notif[1].host # notif[2].host
    /\ pendingSaves = {} )
  => \A r \in LauncherVersionRows : launcherVersionCount[r] = 2

\* C4: a handler whose lookup finds no row of its pair goes on to create
\* one; once the save resolves the pair has exactly one row, its expiresAt
\* is the handler's date plus TRACKING_DURATION, and countDownload is called.
C4_NoRowCreatesAndCounts ==
  [][\A h \in Handlers :
       /\ ( /\ pc[h] = "findOne" /\ pc'[h] \notin {"findOne", "rejected"}
            /\ RowsOfHandler(trackers, h) = {} )
          => pc'[h] = "saveNew"
       /\ ( pc[h] = "saveNew" /\ pc'[h] \notin {"saveNew", "rejected"} )
          => /\ RowsOfHandler(trackers', h) =
                  {[path |-> PathOf(h), ipHash |-> IpHashOf(h),
                    expiresAt |-> arrivedAt[h] + TRACKING_DURATION]}
             /\ fresh'[h] = "yes"
             /\ pc'[h] = AfterClassify(PathOf(h))
    ]_vars

\* A handler created the row of its pair at time 0 and was judged fresh.
C4_Witness ==
  \E h \in Handlers :
    /\ fresh[h] = "yes"
    /\ now = 0
    /\ RowsOfHandler(trackers, h) =
         {[path |-> PathOf(h), ipHash |-> IpHashOf(h),
           expiresAt |-> TRACKING_DURATION]}

\* C5: a handler whose lookup finds a row of its pair that has not expired
\* (now < expiresAt) is not judged fresh, and it issues the save that sets
\* the row's expiresAt to the handler's date plus TRACKING_DURATION.
C5_WithinWindowNotFresh ==
  [][\A h \in Handlers :
       ( /\ pc[h] = "findOne" /\ pc'[h] \notin {"findOne", "rejected"}
         /\ \E r \in RowsOfHandler(trackers, h) : now < r.expiresAt )
       => /\ fresh'[h] = "no"
          /\ pc'[h] = "done"
          /\ TrackerSaveOf(h, arrivedAt[h] + TRACKING_DURATION)
               \in pendingSaves'
    ]_vars

\* A repeat inside the window was dropped and its sliding write has landed.
C5_Witness ==
  \E h \in Handlers :
    /\ fresh[h] = "no"
    /\ pc[h] = "done"
    /\ pendingSaves = {}
    /\ \E r \in RowsOfHandler(trackers, h) :
         r.expiresAt = now + TRACKING_DURATION /\ now > 0

\* C6: a handler whose lookup finds a row of its pair whose window is over
\* (expiresAt < now) is judged fresh again, and it issues the save that sets
\* the row's expiresAt to the handler's date plus TRACKING_DURATION.
C6_AfterWindowFreshAgain ==
  [][\A h \in Handlers :
       ( /\ pc[h] = "findOne" /\ pc'[h] \notin {"findOne", "rejected"}
         /\ \E r \in RowsOfHandler(trackers, h) : r.expiresAt < now )
       => /\ fresh'[h] = "yes"
          /\ pc'[h] = AfterClassify(PathOf(h))
          /\ TrackerSaveOf(h, arrivedAt[h] + TRACKING_DURATION)
               \in pendingSaves'
    ]_vars

\* The second notification of a pair came after the window of the first and
\* was judged fresh; its write of the new window is in flight.
C6_Witness ==
  /\ OnlyDelivered({1, 2})
  /\ notif[1] = notif[2]
  /\ pc[1] = "done" /\ fresh[1] = "yes"
  /\ fresh[2] = "yes"
  /\ now > TRACKING_DURATION
  /\ TrackerSaveOf(2, now + TRACKING_DURATION) \in pendingSaves

\* C7: a notification that finds the row of its pair at the very instant
\* now = expiresAt is judged fresh.
C7_BoundaryIsFresh ==
  [][\A h \in Handlers :
       ( /\ pc[h] = "findOne" /\ pc'[h] \notin {"findOne", "rejected"}
         /\ \E r \in RowsOfHandler(trackers, h) : r.expiresAt = now )
       => fresh'[h] = "yes"
    ]_vars

\* C8: of the notifications of one pair that are all handled at the same
\* instant, with no row of the pair before, exactly one is judged fresh.
C8_OneFreshAmongConcurrent ==
  ( /\ now = 0
    /\ \A h \in Handlers : pc[h] = "done" /\ notif[h] = notif[1] )
  => Cardinality({h \in Handlers : fresh[h] = "yes"}) = 1

C10_NoLostUpdate ==
  ( /\ \A h \in Handlers :
         /\ pc[h] = "done" /\ fresh[h] = "yes"
         /\ notif[h].key = notif[1].key
    /\ CountsOf(notif[1].key) # {}
    /\ pendingSaves = {} )
  => CountsOf(notif[1].key) = {MaxHandlers}

\* C11: a notification whose key has neither shape is never handed to a
\* counter: once its tracker step is over its handler has ended normally,
\* and while only such notifications were delivered every downloadCount is
\* what it was and no save of a catalog row is pending.
C11_UnrecognizedChangesNoCount ==
  /\ \A h \in Handlers :
       (pc[h] # "idle" /\ notif[h].key = KeyUnrelated)
       => /\ pc[h] # "findBy"
          /\ (fresh[h] = "yes" => pc[h] = "done")
  /\ (\A h \in Handlers : pc[h] # "idle" => notif[h].key = KeyUnrelated)
     => /\ \A r \in ModVersionRows : modVersionCount[r] = 0
        /\ \A r \in LauncherVersionRows : launcherVersionCount[r] = 0
        /\ \A w \in pendingSaves : w.table = "DownloadTracker"

\* An unrecognized notification was judged fresh and its handler has ended.
C11_Witness ==
  \E h \in Handlers :
    /\ pc[h] = "done"
    /\ notif[h].key = KeyUnrelated
    /\ fresh[h] = "yes"

\* C12: classification comes before dedup, so a notification with an
\* unrecognized key leaves the tracker store alone: the table holds no row
\* of that key and no write of one is in flight.
C12_UnrecognizedLeavesTrackers ==
  /\ \A r \in trackers : r.path # KeyUnrelated
  /\ \A w \in pendingSaves :
       w.table = "DownloadTracker" => w.entity.path # KeyUnrelated

\* C13: a notification with a recognized key that no catalog row matches is
\* handed to its counter, which finds nothing: the handler ends normally,
\* every downloadCount is what it was and no save of a catalog row is issued.
C13_CatalogMissChangesNoCount ==
  /\ \A h \in Handlers :
       (pc[h] # "idle" /\ notif[h].key = KeyGhost /\ fresh[h] = "yes")
       => pc[h] \in {"findBy", "done"}
  /\ (\A h \in Handlers : pc[h] # "idle" => notif[h].key = KeyGhost)
     => /\ \A r \in ModVersionRows : modVersionCount[r] = 0
        /\ \A r \in LauncherVersionRows : launcherVersionCount[r] = 0
        /\ \A w \in pendingSaves : w.table = "DownloadTracker"

\* The counter of a notification for a missing mod version has run.
C13_Witness ==
  \E h \in Handlers :
    /\ pc[h] = "done"
    /\ notif[h].key = KeyGhost
    /\ fresh[h] = "yes"

\* C14: no failure of a tracker read or write gets past the handler: no
\* handler's promise is ever rejected.
C14_TrackerFailureCaught ==
  \A h \in Handlers : pc[h] # "rejected"

\* All three storage settings are present.
FullyConfigured ==
  service.cfg.accessKey /\ service.cfg.secretKey /\ service.cfg.endPoint

\* C15: with the access key, the secret key or the endpoint missing the
\* service is a no-op: its construction does not fail and startListening
\* leaves it without subscription and without sweeper.
C15_DegradedWhenSettingMissing ==
  ~FullyConfigured
  => /\ service.phase # "threw"
     /\ service.emitters = 0
     /\ service.removalTasks = 0

\* C16: with all three settings present the constructor builds a client,
\* and once startListening has returned the service listens: a subscription
\* exists and the sweeper is scheduled.
C16_ListeningWhenConfigured ==
  (FullyConfigured /\ service.phase = "constructed")
  => /\ service.client
     /\ service.starts >= 1
        => (service.emitters >= 1 /\ service.removalTasks >= 1)

\* A step of the interval timer: no handler moved, no save landed, the clock
\* stood still.
TimerStep == pc' = pc /\ pendingSaves' = pendingSaves /\ now' = now

\* C17: a sweep that resolves selects the rows whose expiresAt has elapsed
\* (expiresAt <= now), and after it no such row is left in the table.
C17_SweepRemovesElapsed ==
  [][(service.sweep # "resolved" /\ service'.sweep = "resolved")
     => /\ MoreThan(trackers, now) = {r \in trackers : r.expiresAt <= now}
        /\ \A r \in trackers' : ~(r.expiresAt <= now)
    ]_vars

\* C18: a step of the sweep timer changes nothing a counting decision
\* reads or makes: the tracker table, with every row that has not expired,
\* the verdicts and the counters are what they were.
C18_SweepChangesNoDecision ==
  [][TimerStep
     => /\ trackers' = trackers
        /\ fresh' = fresh
        /\ modVersionCount' = modVersionCount
        /\ launcherVersionCount' = launcherVersionCount
    ]_vars

\* A sweep has resolved while the table holds a row inside its window, and
\* a repeat download was dropped.
C18_Witness ==
  /\ service.sweep = "resolved"
  /\ \E r \in trackers : now < r.expiresAt
  /\ \E h \in Handlers : fresh[h] = "no"

\* C19: a sweep whose query fails ends caught: nothing is rejected, the
\* interval stays scheduled, the subscription stays, and no handler, table
\* or pending save is touched.
C19_SweepFailureCaught ==
  [][(service'.sweep # service.sweep /\ service'.sweep # "resolved")
     => /\ service'.sweep = "caught"
        /\ service'.removalTasks = service.removalTasks
        /\ service'.removalTasks >= 1
        /\ service'.emitters = service.emitters
        /\ pc' = pc /\ fresh' = fresh /\ trackers' = trackers
        /\ pendingSaves' = pendingSaves
    ]_vars

\* A sweep failed, the interval is still scheduled and a handler has ended.
C19_Witness ==
  /\ service.sweep = "caught"
  /\ service.removalTasks >= 1
  /\ \E h \in Handlers : pc[h] = "done" /\ fresh[h] = "yes"

\* C20: every downloadCount is a non-negative integer that no step lowers.
C20_CountsNeverDecrease ==
  [][/\ \A r \in ModVersionRows :
          modVersionCount[r] >= 0 /\ modVersionCount'[r] >= modVersionCount[r]
     /\ \A r \in LauncherVersionRows :
          /\ launcherVersionCount[r] >= 0
          /\ launcherVersionCount'[r] >= launcherVersionCount[r]
    ]_vars

\* The counters of a mod version and of a launcher version have both run
\* and every save has landed.
C20_Witness ==
  /\ pendingSaves = {}
  /\ \E h \in Handlers :
       pc[h] = "done" /\ fresh[h] = "yes" /\ notif[h].key = KeyModFile
  /\ \E h \in Handlers :
       pc[h] = "done" /\ fresh[h] = "yes" /\ notif[h].key = KeyLauncher

\* What a key composed of the slugs A and B is routed to when rest tells
\* whether its file part is acceptable.
ModTargetOf(A, B, rest) ==
  IF A \in GoodSlugs /\ B \in GoodSlugs /\ rest
  THEN [type |-> "ModVersion", modSlug |-> A, versionSlug |-> B]
  ELSE [type |-> "Unrecognized"]

LauncherTargetOf(V, rest) ==
  IF V \in GoodSlugs /\ rest
  THEN [type |-> "LauncherVersion", versionSlug |-> V]
  ELSE [type |-> "Unrecognized"]

\* No key matches both regexes, and a handler waits for a counter only with
\* a key that was routed to one.
RoutedToOne(h) ==
  /\ ~(modVersionRegex(notif[h].key).matched
         /\ launcherVersionRegex(notif[h].key).matched)
  /\ pc[h] = "findBy" => Classify(notif[h].key).type # "Unrecognized"

\* C21: a key mods/<A>/<B>/<rest> with A and B of 1 to 64 characters of the
\* class and any non-empty rest is routed to the mod-version counter with
\* (A, B); a key launcher/<V>/<rest> with such a V and any non-empty rest to
\* the launcher-version counter with V; every other key is unrecognized; no
\* key is routed to both.
C21_ClassifyByShape ==
  \A h \in Handlers : pc[h] # "idle" =>
    /\ \A p \in ModParts :
         notif[h].key = ModShape(p[1], p[2], p[3])
         => Classify(notif[h].key) = ModTargetOf(p[1], p[2], p[3] # << >>)
    /\ \A p \in LauncherParts :
         notif[h].key = LauncherShape(p[1], p[2])
         => Classify(notif[h].key) = LauncherTargetOf(p[1], p[2] # << >>)
    /\ notif[h].key \in OtherKeys
         => Classify(notif[h].key) = [type |-> "Unrecognized"]
    /\ RoutedToOne(h)

\* C21 as amended: the same, for a rest that is non-empty and holds no line
\* terminator; a key whose rest holds one is unrecognized.
C21_ClassifyByShapeOneLine ==
  \A h \in Handlers : pc[h] # "idle" =>
    /\ \A p \in ModParts :
         notif[h].key = ModShape(p[1], p[2], p[3])
         => Classify(notif[h].key) = ModTargetOf(p[1], p[2], p[3] \in GoodRests)
    /\ \A p \in LauncherParts :
         notif[h].key = LauncherShape(p[1], p[2])
         => Classify(notif[h].key)
              = LauncherTargetOf(p[1], p[2] \in GoodRests)
    /\ notif[h].key \in OtherKeys
         => Classify(notif[h].key) = [type |-> "Unrecognized"]
    /\ RoutedToOne(h)

\* A key with a slug of 64 characters waits for the mod-version counter
\* after a key whose file part holds a line feed ended unrecognized.
C21_Witness ==
  /\ pc[1] = "done" /\ fresh[1] = "yes"
  /\ notif[1].key = ModShape(<<"a">>, <<"Z","9",".","-","_">>, NewlineRest)
  /\ pc[2] = "findBy"
  /\ notif[2].key = ModShape(Slug64, <<"a">>, <<"f">>)

\* The hosts of the notifications delivered so far.
HostsSeen == {notif[h].host : h \in {g \in Handlers : pc[g] # "idle"}}

\* C22: the fingerprint depends on the source host and the salt only: a
\* notification looks up the very row an earlier notification of the same
\* key and host was tracked under, whenever that one was handled, and the
\* table holds no more fingerprints than hosts were seen, whatever the keys.
C22_SameHostSameFingerprint ==
  /\ \A g \in Handlers, h \in Handlers :
       ( /\ fresh[g] # "undecided"
         /\ pc[h] # "idle"
         /\ notif[h] = notif[g] )
       => /\ TrackerFindOne(trackers, PathOf(h), IpHashOf(h)) # NoRow
          /\ TrackerFindOne(trackers, PathOf(h), IpHashOf(h))
               \in RowsOfHandler(trackers, g)
  /\ Cardinality({r.ipHash : r \in trackers}) <= Cardinality(HostsSeen)
  /\ \A r \in trackers : \E ip \in HostsSeen : r.ipHash = IpHash(ip)

\* One host downloaded a key and downloaded it again later: the repeat found
\* the row of the first download and was dropped.
C22_Witness ==
  /\ now > 0
  /\ \E g \in Handlers, h \in Handlers :
       /\ g # h
       /\ notif[g] = notif[h]
       /\ fresh[g] = "yes" /\ fresh[h] = "no"
       /\ RowsOfHandler(trackers, g) # {}

\* One hour, in milliseconds.
OneHour == 60 * 60 * 1000

\* C23: the tracking window and the sweep interval are one hour each, so the
\* second of two downloads of one pair, judged when half an hour has passed
\* since the first, is not counted.
C23_HalfHourRepeatNotCounted ==
  ( /\ OnlyDelivered({1, 2})
    /\ notif[1] = notif[2]
    /\ pc[1] = "done"
    /\ fresh[2] # "undecided"
    /\ ticks = 1
    /\ now = ThirtyMinutes )
  => /\ fresh[2] = "no"
     /\ TRACKING_DURATION = OneHour
     /\ RESET_INTERVAL = OneHour

\* The tracker rows stored under the raw key and the host of handler h.
RowsOfKey(h) == RowsOf(trackers, notif[h].key, IpHash(notif[h].host))

\* Handler h is the only one called so far with its key and host.
FirstOccurrence(h) ==
  \A g \in Handlers : (g # h /\ pc[g] # "idle") => notif[g] # notif[h]

\* C24: the dedup key is the raw object key: a notification that is the
\* first of its key and host is judged fresh and gets a row of its own, also
\* when the same host has downloaded another file of the same mod version.
C24_DistinctKeysTrackedApart ==
  \A h \in Handlers :
    (fresh[h] # "undecided" /\ FirstOccurrence(h))
    => /\ fresh[h] = "yes"
       /\ Cardinality(RowsOfKey(h)) = 1
       /\ \A g \in Handlers :
            ( /\ fresh[g] # "undecided"
              /\ notif[g].host = notif[h].host
              /\ notif[g].key # notif[h].key )
            => RowsOfKey(g) \cap RowsOfKey(h) = {}

\* One host downloaded two files of one mod version: both were judged fresh
\* and the table holds a row for each.
C24_Witness ==
  /\ notif[1] = [key |-> KeyModFile, host |-> "1.2.3.4"]
  /\ notif[2] = [key |-> KeyModOther, host |-> "1.2.3.4"]
  /\ Classify(KeyModFile) = Classify(KeyModOther)
  /\ fresh[1] = "yes" /\ fresh[2] = "yes"
  /\ RowsOfKey(1) # {} /\ RowsOfKey(2) # {}
  /\ RowsOfKey(1) # RowsOfKey(2)

\* The rows of every pair but the one handler h works on.
RowsOfOthers(rows, h) == rows \ RowsOfHandler(rows, h)

\* C25: a step of the handler of a notification for (p, h) leaves the rows
\* of every other pair as they were and issues tracker writes for its own
\* pair only, and its verdict is decided by the row of its own pair alone:
\* it creates a row exactly when its pair has none, and it is dropped
\* exactly when its pair has a row that has not expired.  A write issued
\* without await changes the row of its own pair only when it lands.
C25_DedupScopedToPair ==
  [][/\ \A h \in Handlers :
          (pc[h] # "idle" /\ pc'[h] # pc[h])
          => /\ RowsOfOthers(trackers', h) = RowsOfOthers(trackers, h)
             /\ \A w \in pendingSaves' \ pendingSaves :
                  w.table = "DownloadTracker"
                  => /\ w.entity.path = PathOf(h)
                     /\ w.entity.ipHash = IpHashOf(h)
             /\ (pc[h] = "findOne" /\ pc'[h] # "rejected")
                => /\ pc'[h] = "saveNew" <=> RowsOfHandler(trackers, h) = {}
                   /\ fresh'[h] = "no"
                        <=> \E r \in RowsOfHandler(trackers, h) :
                              ~(r.expiresAt < now)
     /\ \A w \in pendingSaves \ pendingSaves' :
          w.table = "DownloadTracker"
          => trackers' \ RowsOf(trackers', w.entity.path, w.entity.ipHash)
               = trackers \ RowsOf(trackers, w.entity.path, w.entity.ipHash)
    ]_vars

\* The table holds the rows of two pairs written at different times, and
\* both notifications were judged fresh.
C25_Witness ==
  /\ fresh[1] = "yes" /\ fresh[2] = "yes"
  /\ notif[1] # notif[2]
  /\ RowsOfHandler(trackers, 1) # {}
  /\ RowsOfHandler(trackers, 2) # {}
  /\ \E r1 \in RowsOfHandler(trackers, 1), r2 \in RowsOfHandler(trackers, 2) :
       r1.expiresAt < r2.expiresAt

\* C26: of the notifications of one pair that are all handled at the same
\* instant, when the row of the pair exists and its window has elapsed,
\* exactly one is judged fresh.
C26_OneFreshAfterElapsedWindow ==
  ( /\ now = 0
    /\ \A h \in Handlers : pc[h] = "done" /\ notif[h] = ElapsedNotif )
  => Cardinality({h \in Handlers : fresh[h] = "yes"}) = 1

\* C27: no write to the tracker table replaces the expiresAt of a pair by
\* an earlier value.
C27_ExpiryOnlyForward ==
  [][\A r \in trackers, q \in trackers' :
       (q.path = r.path /\ q.ipHash = r.ipHash)
       => q.expiresAt >= r.expiresAt
    ]_vars

\* The (path, ipHash) pairs that have a row.
TrackedPairs(rows) == {<<r.path, r.ipHash>> : r \in rows}

\* C28: notification handling never deletes a tracker row: no step takes a
\* pair out of the table, so every notification that got its verdict still
\* has the row of its pair.
C28_TrackedPairsOnlyGrow ==
  [][/\ TrackedPairs(trackers) \subseteq TrackedPairs(trackers')
     /\ \A h \in Handlers :
          fresh'[h] # "undecided"
          => <<notif'[h].key, IpHash(notif'[h].host)>>
               \in TrackedPairs(trackers')
    ]_vars

\* The row of a download whose window is over is still in the table after a
\* download of another pair was tracked.
C28_Witness ==
  /\ fresh[1] = "yes" /\ fresh[2] = "yes"
  /\ pc[1] = "done" /\ pc[2] = "done"
  /\ notif[1] # notif[2]
  /\ pendingSaves = {}
  /\ \E r \in RowsOfHandler(trackers, 1) : r.expiresAt < now
  /\ \E r \in RowsOfHandler(trackers, 2) : r.expiresAt > now

\* C29: however often startListening is called on the one instance, there
\* is at most one notification subscription and at most one scheduled
\* sweeper, and one bucket event starts at most one handler.
C29_ListeningStartsOnce ==
  /\ service.emitters <= 1
  /\ service.removalTasks <= 1
  /\ Cardinality(Started) <= 1

\* C30: whatever the catalog lookup of a counter does, fail included, the
\* handler that awaits it ends normally in that step, no downloadCount
\* changes, and the other handlers and the subscription are left as they
\* were.
C30_CatalogFailureCaught ==
  [][\A h \in Handlers :
       (pc[h] = "findBy" /\ pc'[h] # "findBy")
       => /\ pc'[h] = "done"
          /\ modVersionCount' = modVersionCount
          /\ launcherVersionCount' = launcherVersionCount
          /\ \A g \in Handlers : g # h => pc'[g] = pc[g]
          /\ service' = service
    ]_vars

\* The handler of a recognized key has ended after its lookup and a later
\* notification was delivered and judged.
C30_Witness ==
  /\ pc[1] = "done" /\ fresh[1] = "yes"
  /\ Classify(notif[1].key).type # "Unrecognized"
  /\ pc[2] = "done" /\ fresh[2] # "undecided"
  /\ \A r \in ModVersionRows : modVersionCount[r] = 0
  /\ \A r \in LauncherVersionRows : launcherVersionCount[r] = 0

\* C31: whenever a counter has been invoked for a notification and awaits
\* its lookup, the row of the notification's pair is persisted with an
\* expiresAt in the future: the tracker write came first.
C31_TrackerWrittenBeforeCounting ==
  \A h \in Handlers :
    pc[h] = "findBy"
    => \E r \in RowsOfHandler(trackers, h) : r.expiresAt > now

(* ---------------------- like toggling of the web app -------------------- *)

\* toggleLike resumes with a call that returned data: 'like' is emitted and
\* onToggleLike runs.
Emits(c) ==
  /\ calls[c] # NoCall
  /\ calls[c].state = "returned"
  /\ calls[c].ok
  /\ calls'[c].state = "done"

\* likeCount after a like and after an unlike, counted from 0 when unset.
CountOf(v) == IF v = Unset THEN 0 ELSE v

OneMore(v) == CountOf(v) + 1

OneLess(v) == IF CountOf(v) = 0 THEN 0 ELSE CountOf(v) - 1

\* C32: onToggleLike(true) raises the likeCount of the mod on display by
\* exactly one (to 1 from 0 or unset) and onToggleLike(false) lowers it by
\* exactly one, never below 0.
C32_ToggleMovesLikeCountByOne ==
  [][\A c \in Calls :
       Emits(c) =>
         mod'.likeCount = IF calls[c].op = "likeMod"
                          THEN OneMore(mod.likeCount)
                          ELSE OneLess(mod.likeCount)]_vars

\* How often a mod is in the list.
Occurrences(list, modId) ==
  Cardinality({i \in 1..Len(list) : list[i] = modId})

\* The request of call c settles.
Settles(c) ==
  /\ calls[c] # NoCall
  /\ calls[c].state = "sent"
  /\ calls'[c].state = "returned"

\* C33: a successful unlikeMod(m) removes only m from state.likes, and
\* nothing when m is not in the list; a rejected call leaves state.likes
\* as it was.
C33_UnlikeRemovesOnlyItsMod ==
  [][\A c \in Calls :
       Settles(c) =>
         /\ ~calls'[c].ok => likes' = likes
         /\ calls'[c].ok /\ calls[c].op = "unlikeMod" =>
              /\ \A o \in Mods \ {calls[c].modId} :
                   Occurrences(likes', o) = Occurrences(likes, o)
              /\ Occurrences(likes, calls[c].modId) = 0 => likes' = likes]_vars

(* ------------------------ the guard of the router ----------------------- *)

\* The guard ran: the navigation on record is a new one.
GuardRan == nav' # nav

\* C34: every navigation takes exactly one continuation, by priority:
\* handleMissingSession for a route that requires a session while the
\* session is expired; else handleExistingSession for a route that prohibits
\* a session while the session is not expired; else handleAdminOnly for an
\* adminOnly route; else next().  A route that requires a session is never
\* entered by the plain next() while the session is expired.
C34_GuardTakesOneByPriority ==
  [][GuardRan =>
       LET meta     == nav'.to.meta
           missing  == meta.sessionRequired /\ session.expired
           existing == meta.prohibitSession /\ ~session.expired
       IN  /\ Len(nav'.taken) = 1
           /\ missing => nav'.taken[1] = "handleMissingSession"
           /\ ~missing /\ existing => nav'.taken[1] = "handleExistingSession"
           /\ ~missing /\ ~existing /\ meta.adminOnly
                => nav'.taken[1] = "handleAdminOnly"
           /\ ~missing /\ ~existing /\ ~meta.adminOnly
                => nav'.taken[1] = "next"
           /\ meta.sessionRequired /\ session.expired
                => /\ \A i \in 1..Len(nav'.taken) : nav'.taken[i] # "next"
                   /\ nav'.shown = Shown(nav)]_vars

\* A navigation to an adminOnly route that requires a session, made without
\* one: the missing session was handled, not the admin check.
C34_Witness ==
  /\ nav # NoNav
  /\ nav.to.meta.sessionRequired
  /\ nav.to.meta.adminOnly
  /\ session.expired
  /\ nav.taken = <<"handleMissingSession">>

====
